---- MODULE Spec2Model ----
(***************************************************************************)
(* A model of safetensors_utils.py: the header reader                      *)
(* read_safetensors_json and the multi-file aggregator SafetensorsWrapper. *)
(*                                                                         *)
(* A file is a record [prefix, rest]: prefix holds the bytes at offsets    *)
(* [0, 8) that are present (fewer than 8 when the file is shorter), rest   *)
(* holds what follows.  The bytes after the prefix are modelled at the     *)
(* granularity of lexical units, each unit counting as one byte: "{", "}", *)
(* ",", " " (JSON whitespace), one unit per object member ("entry": a      *)
(* tensor entry with data_offsets, "nooff": a tensor entry without         *)
(* data_offsets, "meta": the __metadata__ member) and "raw" (a byte that   *)
(* is not valid UTF-8, such as tensor data).                               *)
(***************************************************************************)
EXTENDS Integers, Sequences, FiniteSets, TLC

VARIABLES
    byteorder,    \* the host's native byte order (sys.byteorder)
    disk,         \* path -> file contents, or NoFile
    file_paths,   \* the argument of SafetensorsWrapper(file_paths), normalised to a list
    pc,           \* position of the constructor / lifetime of the wrapper
    cur,          \* index in file_paths of the file _load_file is working on
    pending,      \* keys of file.keys() the loop of _load_file has not visited yet
    handles,      \* every safe_open handle opened so far, in opening order
    _file_paths,  \* self._file_paths
    _tensors,     \* self._tensors: tensor name -> index in handles of the owning handle
    exc,          \* the exception that ended the constructor
    ret,          \* what the last query returned or raised
    mutations,    \* number of external writes to the files so far
    input,        \* the file handed to read_safetensors_json (parser specification)
    parsed        \* what read_safetensors_json made of input

vars == <<byteorder, disk, file_paths, pc, cur, pending, handles, _file_paths,
          _tensors, exc, ret, mutations, input, parsed>>

-----------------------------------------------------------------------------
(* Bounds *)

MaxPaths == 3        \* longest file_paths list given to the constructor
MaxMutations == 1    \* external writes to the files after construction
MaxDeclared == 4     \* largest header length written into a prefix (parser inputs)

(* Program constants *)

PrefixLen == 8       \* f.read(8)

-----------------------------------------------------------------------------
(* Bytes and lexical units *)

Names == {"a", "b"}
MetadataKey == "__metadata__"

Tok(t) == [t |-> t, name |-> "", lo |-> 0, hi |-> 0]
LBrace == Tok("{")
RBrace == Tok("}")
Comma == Tok(",")
Space == Tok(" ")
Raw == Tok("raw")
Meta == Tok("meta")
Entry(n, lo, hi) == [t |-> "entry", name |-> n, lo |-> lo, hi |-> hi]
NoOff(n) == [t |-> "nooff", name |-> n, lo |-> 0, hi |-> 0]

Reverse(s) == [i \in 1..Len(s) |-> s[Len(s) + 1 - i]]
Min(x, y) == IF x <= y THEN x ELSE y

-----------------------------------------------------------------------------
(* read_safetensors_json *)

\* A 64-bit unsigned value is kept as its eight base-256 digits, most
\* significant first, so that no arithmetic leaves the 64-bit range.
LittleEndianDigits(b) == Reverse(b)
BigEndianDigits(b) == b

\* struct.unpack('Q', b): no byte-order character, so native byte order.
UnpackQ(b, order) ==
    IF order = "little" THEN LittleEndianDigits(b) ELSE BigEndianDigits(b)

\* f.read(n) on a file with avail bytes left: the number of bytes returned,
\* or -1 when a bytes object of n bytes cannot be allocated (n >= 2^56 is
\* beyond any address space: MemoryError or OverflowError).  A read past the
\* end of the file is short, it does not fail.
ReadCount(d, avail) ==
    IF d[1] # 0 THEN -1
    ELSE IF \E i \in 2..5 : d[i] # 0 THEN avail
    ELSE Min(d[6] * 65536 + d[7] * 256 + d[8], avail)

\* bytes.decode('utf-8')
IsUtf8(s) == \A i \in 1..Len(s) : s[i].t # "raw"

\* json.loads: whitespace between tokens is insignificant; the text must be one
\* object, its members separated by commas.
RemoveWs(s) == SelectSeq(s, LAMBDA x : x.t # " ")
IsMember(x) == x.t \in {"entry", "nooff", "meta"}
MemberName(x) == IF x.t = "meta" THEN MetadataKey ELSE x.name
IsJsonObject(s) ==
    LET t == RemoveWs(s) IN
    /\ Len(t) >= 2
    /\ t[1] = LBrace
    /\ t[Len(t)] = RBrace
    /\ \/ Len(t) = 2
       \/ /\ Len(t) % 2 = 1
          /\ \A i \in 2..(Len(t) - 1) :
                IF i % 2 = 0 THEN IsMember(t[i]) ELSE t[i] = Comma

\* The dict json.loads builds: a repeated key keeps its last value.
JsonLoads(s) ==
    LET t == RemoveWs(s)
        idx == {i \in 1..Len(t) : IsMember(t[i])}
        last(n) == CHOOSE i \in idx :
                      /\ MemberName(t[i]) = n
                      /\ \A j \in idx : MemberName(t[j]) = n => j <= i
    IN [n \in {MemberName(t[i]) : i \in idx} |->
          [has_offsets |-> t[last(n)].t = "entry",
           data_offsets |-> <<t[last(n)].lo, t[last(n)].hi>>]]

NoHeader == <<>>
Failure(status, size, bytes) ==
    [status |-> status, header_size |-> size, header_bytes |-> bytes, header |-> NoHeader]

read_safetensors_json(file, order) ==
    LET header_size_bytes == file.prefix IN
    IF Len(header_size_bytes) # PrefixLen
    THEN Failure("struct.error", <<>>, <<>>)
    ELSE
      LET header_size == UnpackQ(header_size_bytes, order)
          n == ReadCount(header_size, Len(file.rest))
      IN
      IF n < 0 THEN Failure("MemoryError", header_size, <<>>)
      ELSE
        LET header_bytes == SubSeq(file.rest, 1, n) IN
        IF ~IsUtf8(header_bytes)
        THEN Failure("UnicodeDecodeError", header_size, header_bytes)
        ELSE IF ~IsJsonObject(header_bytes)
        THEN Failure("JSONDecodeError", header_size, header_bytes)
        ELSE [status |-> "ok", header_size |-> header_size,
              header_bytes |-> header_bytes, header |-> JsonLoads(header_bytes)]

-----------------------------------------------------------------------------
(* The files *)

NoFile == [prefix |-> <<>>, rest |-> <<>>, exists |-> FALSE]
File(prefix, rest) == [prefix |-> prefix, rest |-> rest, exists |-> TRUE]

\* The eight bytes that hold n < 256 in little-endian and in big-endian layout.
LEPrefix(n) == <<n, 0, 0, 0, 0, 0, 0, 0>>
BEPrefix(n) == <<0, 0, 0, 0, 0, 0, 0, n>>

Join(members) ==
    [i \in 1..(IF members = <<>> THEN 0 ELSE 2 * Len(members) - 1) |->
        IF i % 2 = 1 THEN members[(i + 1) \div 2] ELSE Comma]
Repeat(x, n) == [i \in 1..n |-> x]
Body(members, pad) == <<LBrace>> \o Join(members) \o <<RBrace>> \o Repeat(Space, pad)

\* A well-formed container: little-endian length, header, padding, tensor data.
Container(members, pad, ndata) ==
    File(LEPrefix(Len(Body(members, pad))), Body(members, pad) \o Repeat(Raw, ndata))

Paths == {<<"d1", "m.st">>, <<"d2", "n.st">>}

FileEmpty == Container(<<>>, 0, 0)
FileA == Container(<<Entry("a", 0, 1)>>, 0, 1)
FileB == Container(<<Meta, Entry("b", 0, 2)>>, 1, 2)
FileAB == Container(<<Entry("b", 1, 3), Entry("a", 0, 1)>>, 0, 3)
\* FileA padded with one space, cut inside the padding: 4 bytes declared, 3 present.
FileCut == File(LEPrefix(4), Body(<<Entry("a", 0, 1)>>, 0))
FileNoOff == Container(<<NoOff("b")>>, 0, 0)

DiskFiles == {NoFile, FileEmpty, FileA, FileB, FileAB, FileCut, FileNoOff}

-----------------------------------------------------------------------------
(* safetensors.safe_open, as _load_file uses it: the handle and its keys() *)

RECURSIVE ChainEnd(_, _)
\* The end of the data section when the spans, taken in offset order, are
\* contiguous from start; -1 when they leave a gap, overlap or run backwards.
ChainEnd(spans, start) ==
    IF spans = {} THEN start
    ELSE LET m == CHOOSE x \in spans :
                    \A y \in spans : x[1] < y[1] \/ (x[1] = y[1] /\ x[2] <= y[2])
         IN IF m[1] # start \/ m[2] < m[1] THEN -1
            ELSE ChainEnd(spans \ {m}, m[2])

\* safe_open reads the length little-endian on every host, and rejects a file
\* whose header or data section is not all there.
SafeOpen(file) ==
    IF ~file.exists THEN [status |-> "FileNotFoundError", keys |-> {}]
    ELSE IF Len(file.prefix) # PrefixLen THEN [status |-> "SafetensorError", keys |-> {}]
    ELSE
      LET d == LittleEndianDigits(file.prefix)
          n == d[6] * 65536 + d[7] * 256 + d[8]
      IN
      IF (\E i \in 1..5 : d[i] # 0) \/ n > Len(file.rest)
      THEN [status |-> "SafetensorError", keys |-> {}]
      ELSE
        LET text == SubSeq(file.rest, 1, n)
            t == RemoveWs(text)
            members == {i \in 1..Len(t) : IsMember(t[i])}
            tensors == {i \in members : t[i].t # "meta"}
        IN
        IF \/ ~IsUtf8(text)
           \/ ~IsJsonObject(text)
           \/ \E i \in members : t[i].t = "nooff"
           \/ \E i, j \in members : i # j /\ MemberName(t[i]) = MemberName(t[j])
        THEN [status |-> "SafetensorError", keys |-> {}]
        ELSE
          LET end == ChainEnd({<<t[i].lo, t[i].hi, t[i].name>> : i \in tensors}, 0) IN
          IF end < 0 \/ n + end # Len(file.rest)
          THEN [status |-> "SafetensorError", keys |-> {}]
          ELSE [status |-> "ok", keys |-> {t[i].name : i \in tensors}]

\* file.get_tensor(key), file.get_slice(key): the tensor of that name in the
\* file behind the handle.
get_tensor(h, key) == [kind |-> "tensor", file |-> h, name |-> key]
get_slice(h, key) == [kind |-> "slice", file |-> h, name |-> key]

-----------------------------------------------------------------------------
(* SafetensorsWrapper.__init__ and _load_file *)

NoExc == [type |-> "none", key |-> "", at |-> 0]
NoRet == [op |-> "none", arg |-> "", status |-> "none", value |-> {}]
NoInput == NoFile
NotParsed == Failure("pending", <<>>, <<>>)

SeqsUpTo(S, n) == UNION {[1..k -> S] : k \in 0..n}
Range(s) == {s[i] : i \in DOMAIN s}
EmptyDict == [n \in {} |-> 0]

\* The caller's files, and a wrapper whose constructor has run lines 32-37:
\* file_paths is a list, self._file_paths = [] and self._tensors = {}.
\* Files at paths the wrapper is not given are never read and are left out.
Init ==
    /\ byteorder \in {"little", "big"}
    /\ file_paths \in SeqsUpTo(Paths, MaxPaths)
    /\ disk \in [Paths -> DiskFiles]
    /\ \A p \in Paths \ Range(file_paths) : disk[p] = NoFile
    /\ pc = "loop"
    /\ cur = 1
    /\ pending = {}
    /\ handles = <<>>
    /\ _file_paths = <<>>
    /\ _tensors = EmptyDict
    /\ exc = NoExc
    /\ ret = NoRet
    /\ mutations = 0
    /\ input = NoInput
    /\ parsed = NotParsed

\* Line 45: file = safetensors.safe_open(file_path, ...), for the next path of
\* the loop of line 40.  An exception leaves __init__.
OpenFile ==
    /\ pc = "loop"
    /\ cur <= Len(file_paths)
    /\ LET r == SafeOpen(disk[file_paths[cur]]) IN
       IF r.status # "ok"
       THEN /\ exc' = [type |-> r.status, key |-> "", at |-> cur]
            /\ pc' = "raised"
            /\ UNCHANGED <<handles, pending>>
       ELSE /\ handles' = Append(handles, [path |-> file_paths[cur], keys |-> r.keys,
                                           open |-> TRUE])
            /\ pending' = r.keys
            /\ pc' = "keys"
            /\ exc' = exc
    /\ UNCHANGED <<byteorder, disk, file_paths, cur, _file_paths, _tensors, ret,
                   mutations, input, parsed>>

\* LoadKey without the test of line 47: a later file takes the name over.
LoadKey_LastFileWins ==
    /\ pc = "keys"
    /\ \E key \in pending :
         /\ _tensors' = (key :> Len(handles)) @@ _tensors
         /\ pending' = pending \ {key}
    /\ UNCHANGED <<byteorder, disk, file_paths, pc, cur, handles, _file_paths, exc, ret,
                   mutations, input, parsed>>

\* Lines 46-49: one turn of the loop over file.keys(), in whatever order the
\* handle yields them.
LoadKey ==
    /\ pc = "keys"
    /\ \E key \in pending :
         IF key \in DOMAIN _tensors
         THEN /\ exc' = [type |-> "ValueError", key |-> key, at |-> cur]
              /\ pc' = "raised"
              /\ UNCHANGED <<_tensors, pending>>
         ELSE /\ _tensors' = (key :> Len(handles)) @@ _tensors
              /\ pending' = pending \ {key}
              /\ UNCHANGED <<exc, pc>>
    /\ UNCHANGED <<byteorder, disk, file_paths, cur, handles, _file_paths, ret,
                   mutations, input, parsed>>

\* AppendPath that records only the files that brought a tensor.
AppendPath_SkipsEmptyFile ==
    /\ pc = "keys"
    /\ pending = {}
    /\ _file_paths' = IF handles[cur].keys = {} THEN _file_paths
                      ELSE Append(_file_paths, file_paths[cur])
    /\ cur' = cur + 1
    /\ pc' = "loop"
    /\ UNCHANGED <<byteorder, disk, file_paths, pending, handles, _tensors, exc, ret,
                   mutations, input, parsed>>

\* Line 50, once the loop over the keys is over, and back to the loop of line 40.
AppendPath ==
    /\ pc = "keys"
    /\ pending = {}
    /\ _file_paths' = Append(_file_paths, file_paths[cur])
    /\ cur' = cur + 1
    /\ pc' = "loop"
    /\ UNCHANGED <<byteorder, disk, file_paths, pending, handles, _tensors, exc, ret,
                   mutations, input, parsed>>

\* The loop of line 40 is over: __init__ returns and the caller holds the wrapper.
Return ==
    /\ pc = "loop"
    /\ cur > Len(file_paths)
    /\ pc' = "done"
    /\ UNCHANGED <<byteorder, disk, file_paths, cur, pending, handles, _file_paths,
                   _tensors, exc, ret, mutations, input, parsed>>

\* Nothing in __init__ or _load_file closes a handle: after an exception the
\* handles stay open until the runtime finalises the abandoned wrapper.
Finalize ==
    /\ pc = "raised"
    /\ \E i \in DOMAIN handles : handles[i].open
    /\ handles' = [i \in DOMAIN handles |-> [handles[i] EXCEPT !.open = FALSE]]
    /\ UNCHANGED <<byteorder, disk, file_paths, pc, cur, pending, _file_paths,
                   _tensors, exc, ret, mutations, input, parsed>>

-----------------------------------------------------------------------------
(* The queries *)

Returned(op, arg, value) == [op |-> op, arg |-> arg, status |-> "ok", value |-> value]
Raised(op, arg, type) == [op |-> op, arg |-> arg, status |-> type, value |-> {}]

\* Lines 76-80.
getitem(key) ==
    IF key \in DOMAIN _tensors
    THEN Returned("getitem", key, get_tensor(_tensors[key], key))
    ELSE Raised("getitem", key, "KeyError")

\* get without the except clause of lines 55-56.
get_Uncaught(key, default) == [getitem(key) EXCEPT !.op = "get"]

\* Lines 52-56.
get(key, default) ==
    LET r == getitem(key) IN
    IF r.status = "KeyError" THEN Returned("get", key, default)
    ELSE [r EXCEPT !.op = "get"]

\* Lines 58-60; the order of the list is left out.
keys == DOMAIN _tensors

\* Lines 62-65 and 67-70, the generator run to its end.
items == {<<key, get_tensor(_tensors[key], key)>> : key \in keys}
slices == {<<key, get_slice(_tensors[key], key)>> : key \in keys}

\* Lines 72-74.
contains(key) == key \in DOMAIN _tensors

\* len that counts the files, not the tensors.
len_OfFiles == Len(_file_paths)

\* Lines 82-84.
len == Cardinality(DOMAIN _tensors)

\* Line 107: os.path.basename.
basename(path) == path[Len(path)]

\* span that takes the end offset for the size.
span_EndOnly(tensor_info) == tensor_info.data_offsets[2]

\* Line 114: the bytes of one tensor.
span(tensor_info) == tensor_info.data_offsets[2] - tensor_info.data_offsets[1]

\* assign that keeps the file a name already has.
assign_FirstFileWins(weight_map, tensor_names, file_name) ==
    weight_map @@ [n \in tensor_names |-> file_name]

\* Line 113, for every tensor name of one file: an assignment replaces the
\* entry the name has.
assign(weight_map, tensor_names, file_name) ==
    [n \in tensor_names |-> file_name] @@ weight_map

RECURSIVE IndexFrom(_, _, _)
\* Lines 105-114 from the i-th loaded path on, acc being weight_map and
\* total_size so far.  Within one file the names are distinct, so the order
\* of metadata.items() does not show.
IndexFrom(i, weight_map, total_size) ==
    IF i > Len(_file_paths) THEN Returned("get_index", "", [metadata |-> [total_size |-> total_size],
                                                             weight_map |-> weight_map])
    ELSE
      LET file_path == _file_paths[i]
          file == disk[file_path]
          r == read_safetensors_json(file, byteorder)
          metadata == r.header
          file_name == basename(file_path)
          tensor_names == DOMAIN metadata \ {MetadataKey}
          RECURSIVE Sum(_)
          Sum(S) == IF S = {} THEN 0
                    ELSE LET n == CHOOSE n \in S : TRUE
                         IN span(metadata[n]) + Sum(S \ {n})
      IN
      IF ~file.exists THEN Raised("get_index", "", "FileNotFoundError")
      ELSE IF r.status # "ok" THEN Raised("get_index", "", r.status)
      ELSE IF \E n \in tensor_names : ~metadata[n].has_offsets
      THEN Raised("get_index", "", "KeyError")
      ELSE IndexFrom(i + 1,
                     assign(weight_map, tensor_names, file_name),
                     total_size + Sum(tensor_names))

\* Lines 94-123.
get_index == IndexFrom(1, EmptyDict, 0)

Absent == "zz"
Default == "default"
Keys == Names \cup {Absent}

\* A query that drops the registry it has read.
Query_Consuming(r) ==
    /\ pc = "done"
    /\ ret' = r
    /\ _tensors' = EmptyDict
    /\ UNCHANGED <<byteorder, disk, file_paths, pc, cur, pending, handles, _file_paths,
                   exc, mutations, input, parsed>>

\* A query runs on a constructed wrapper and changes none of its fields.
Query(r) ==
    /\ pc = "done"
    /\ ret' = r
    /\ UNCHANGED <<byteorder, disk, file_paths, pc, cur, pending, handles, _file_paths,
                   _tensors, exc, mutations, input, parsed>>

Get == \E key \in Keys : Query(get(key, Default))
GetItem == \E key \in Keys : Query(getitem(key))
Contains == \E key \in Keys : Query(Returned("contains", key, contains(key)))
KeysOp == Query(Returned("keys", "", keys))
Items == Query(Returned("items", "", items))
Slices == Query(Returned("slices", "", slices))
LenOp == Query(Returned("len", "", len))
Iter == Query(Returned("iter", "", keys))
GetIndex == Query(get_index)

\* The files belong to the caller's file system: one of the wrapper's files is
\* rewritten, replaced or removed after construction.  ret is the answer to the
\* last query on the files as they are, so the write clears it.
Mutate ==
    /\ pc = "done"
    /\ mutations < MaxMutations
    /\ \E p \in Range(file_paths), f \in DiskFiles :
          /\ f # disk[p]
          /\ disk' = [disk EXCEPT ![p] = f]
    /\ mutations' = mutations + 1
    /\ ret' = NoRet
    /\ UNCHANGED <<byteorder, file_paths, pc, cur, pending, handles, _file_paths,
                   _tensors, exc, input, parsed>>

Next ==
    \/ OpenFile
    \/ LoadKey
    \/ AppendPath
    \/ Return
    \/ Finalize
    \/ Get
    \/ GetItem
    \/ Contains
    \/ KeysOp
    \/ Items
    \/ Slices
    \/ LenOp
    \/ Iter
    \/ GetIndex
    \/ Mutate

Spec == Init /\ [][Next]_vars

-----------------------------------------------------------------------------
(* The parser on its own: read_safetensors_json on one file, as the CLI's *)
(* metadata command runs it (lines 149-153).                              *)

ParseBodies ==
    { Body(<<>>, 0),
      Body(<<Entry("a", 0, 1)>>, 1),
      Body(<<Meta, Entry("b", 0, 2)>>, 0),
      Body(<<NoOff("b")>>, 0),
      <<LBrace, Entry("a", 0, 1), Comma, RBrace>> }

Prefixes == {LEPrefix(n) : n \in 0..MaxDeclared} \cup {BEPrefix(n) : n \in 0..MaxDeclared}

\* Every prefix before every body followed by a data byte, cut at every length.
ParseInputs ==
    {File(SubSeq(pfx, 1, k), <<>>) : pfx \in Prefixes, k \in 0..(PrefixLen - 1)}
    \cup UNION {{File(pfx, SubSeq(body \o <<Raw>>, 1, k)) : k \in 0..(Len(body) + 1)} :
                  pfx \in Prefixes, body \in ParseBodies}

InitParse ==
    /\ byteorder \in {"little", "big"}
    /\ input \in ParseInputs
    /\ parsed = NotParsed
    /\ disk = [p \in Paths |-> NoFile]
    /\ file_paths = <<>>
    /\ pc = "parser"
    /\ cur = 1
    /\ pending = {}
    /\ handles = <<>>
    /\ _file_paths = <<>>
    /\ _tensors = EmptyDict
    /\ exc = NoExc
    /\ ret = NoRet
    /\ mutations = 0

ParseHeader ==
    /\ pc = "parser"
    /\ parsed = NotParsed
    /\ parsed' = read_safetensors_json(input, byteorder)
    /\ UNCHANGED <<byteorder, disk, file_paths, pc, cur, pending, handles, _file_paths,
                   _tensors, exc, ret, mutations, input>>

NextParse == ParseHeader

SpecParse == InitParse /\ [][NextParse]_vars

-----------------------------------------------------------------------------
(* What a file holds according to the container format, read off its bytes *)
(* without the program: the length is little-endian, the header text is    *)
(* the N bytes after the prefix.                                           *)

DeclaredIsSmall(file) == \A i \in 1..5 : LittleEndianDigits(file.prefix)[i] = 0
DeclaredLength(file) ==
    LET d == LittleEndianDigits(file.prefix) IN d[6] * 65536 + d[7] * 256 + d[8]
Truncated(file) ==
    \/ Len(file.prefix) < PrefixLen
    \/ ~DeclaredIsSmall(file)
    \/ DeclaredLength(file) > Len(file.rest)
HeaderText(file) == SubSeq(file.rest, 1, DeclaredLength(file))
HasHeader(file) ==
    /\ file.exists
    /\ ~Truncated(file)
    /\ IsUtf8(HeaderText(file))
    /\ IsJsonObject(HeaderText(file))
TensorEntries(file) ==
    IF ~HasHeader(file) THEN {}
    ELSE {HeaderText(file)[i] : i \in {j \in 1..DeclaredLength(file) :
                                          HeaderText(file)[j].t \in {"entry", "nooff"}}}
TensorNames(file) == {e.name : e \in TensorEntries(file)}

RECURSIVE SpanSum(_)
SpanSum(entries) ==
    IF entries = {} THEN 0
    ELSE LET e == CHOOSE e \in entries : TRUE
         IN (e.hi - e.lo) + SpanSum(entries \ {e})

RECURSIVE SumUpTo(_, _)
SumUpTo(f, n) == IF n = 0 THEN 0 ELSE f[n] + SumUpTo(f, n - 1)

Loaded == 1..Len(_file_paths)
OnDisk(i) == disk[_file_paths[i]]
Indexed == ret.op = "get_index" /\ ret.status = "ok"

-----------------------------------------------------------------------------
(* The claims *)

\* C1: construction is all-or-nothing on collisions.  A collision error names
\* a tensor that is in the header of the file being loaded and in the header
\* of a file loaded before it; whenever two of the opened files share a name
\* the constructor does not return, and ends in the collision error if it
\* ends; a constructor that raised never returns a wrapper and no query is
\* ever answered by its partial registry; and
\* in a constructed wrapper every name of the registry is in the header of
\* exactly one loaded file, the one the registry maps it to, and every name of
\* a loaded file is in the registry.
C1_AllOrNothing ==
    /\ exc.type = "ValueError" =>
          /\ pc = "raised"
          /\ exc.key \in TensorNames(disk[file_paths[exc.at]])
          /\ \E i \in 1..(exc.at - 1) : exc.key \in TensorNames(disk[file_paths[i]])
    /\ (\E i, j \in DOMAIN handles : i < j /\ handles[i].keys \cap handles[j].keys # {}) =>
          /\ pc \in {"keys", "raised"}
          /\ pc = "raised" => exc.type = "ValueError"
    /\ exc.type # "none" => pc = "raised"
    /\ pc = "raised" => ret = NoRet
    /\ pc = "done" =>
          /\ Len(handles) = Len(file_paths)
          /\ \A n \in DOMAIN _tensors :
                \A i \in DOMAIN handles : n \in handles[i].keys <=> i = _tensors[n]
          /\ \A i \in DOMAIN handles : handles[i].keys \subseteq DOMAIN _tensors
          /\ mutations = 0 =>
                \A i \in DOMAIN handles :
                   handles[i].keys = TensorNames(disk[file_paths[i]])

W1_Collision ==
    /\ pc = "raised"
    /\ exc.type = "ValueError"
    /\ exc.at = 2
    /\ Cardinality(DOMAIN _tensors) = 2

\* C2: len() of a constructed wrapper is the sum, over the loaded files, of
\* the number of keys of the file's header other than __metadata__.
C2_LenIsSum ==
    ret.op = "len" =>
       /\ ret.value = SumUpTo([i \in DOMAIN handles |-> Cardinality(handles[i].keys)],
                              Len(handles))
       /\ Len(handles) = Len(file_paths)
       /\ mutations = 0 =>
             ret.value = SumUpTo([i \in DOMAIN file_paths |->
                                     Cardinality(TensorNames(disk[file_paths[i]]))],
                                 Len(file_paths))

W2_TwoDisjointFiles ==
    /\ ret.op = "len"
    /\ ret.value = 2
    /\ Len(_file_paths) = 2
    /\ \A i \in Loaded : Cardinality(handles[i].keys) = 1
    /\ \E i \in Loaded : disk[_file_paths[i]] = FileB

\* C3: the total_size get_index returns is the sum, over the loaded files and
\* the entries of each file's header other than __metadata__, of
\* data_offsets[1] - data_offsets[0].
C3_TotalSize ==
    (Indexed /\ \A i \in Loaded : HasHeader(OnDisk(i))) =>
       ret.value.metadata.total_size =
          SumUpTo([i \in Loaded |-> SpanSum(TensorEntries(OnDisk(i)))], Len(_file_paths))

W3_TotalSize ==
    /\ Indexed
    /\ mutations = 0
    /\ \E i \in Loaded : OnDisk(i) = FileB
    /\ \E i \in Loaded : OnDisk(i) = FileA
    /\ ret.value.metadata.total_size = 3

\* C4: the weight_map get_index returns maps every tensor name of the headers
\* on disk to the basename of the last loaded file whose header holds it, and
\* get_index raises no collision error.
C4_WeightMap ==
    /\ ret.op = "get_index" => ret.status # "ValueError"
    /\ (Indexed /\ \A i \in Loaded : HasHeader(OnDisk(i))) =>
          /\ DOMAIN ret.value.weight_map = UNION {TensorNames(OnDisk(i)) : i \in Loaded}
          /\ \A n \in DOMAIN ret.value.weight_map :
                \E i \in Loaded :
                   /\ n \in TensorNames(OnDisk(i))
                   /\ \A j \in Loaded : n \in TensorNames(OnDisk(j)) => j <= i
                   /\ ret.value.weight_map[n] = basename(_file_paths[i])

W4_LaterFileWins ==
    /\ Indexed
    /\ mutations > 0
    /\ \A i \in Loaded : HasHeader(OnDisk(i))
    /\ \E i, j \in Loaded :
          /\ i < j
          /\ basename(_file_paths[i]) # basename(_file_paths[j])
          /\ "a" \in TensorNames(OnDisk(i)) \cap TensorNames(OnDisk(j))
          /\ ret.value.weight_map["a"] = basename(_file_paths[j])

\* C5: on a host where the parser's length is the declared little-endian
\* length, parsing a file with fewer than 8 bytes, or with fewer bytes after
\* the prefix than the length it declares, never returns a header.
C5_TruncatedAlwaysFails ==
    (parsed # NotParsed /\ byteorder = "little" /\ Truncated(input)) => parsed.status # "ok"

\* C6: for a name that is not in the registry get(name, default) returns the
\* default and the strict accessor raises the not-found error for that name;
\* for a name in the registry both return the tensor of that name from the one
\* loaded file whose header holds it.
C6_Lookup ==
    /\ (ret.op = "get" /\ ret.arg \notin DOMAIN _tensors) =>
          ret.status = "ok" /\ ret.value = Default
    /\ (ret.op = "getitem" /\ ret.arg \notin DOMAIN _tensors) =>
          ret.status = "KeyError" /\ ret.arg \notin UNION {handles[i].keys : i \in DOMAIN handles}
    /\ (ret.op \in {"get", "getitem"} /\ ret.arg \in DOMAIN _tensors) =>
          /\ ret.status = "ok"
          /\ ret.value.kind = "tensor"
          /\ ret.value.name = ret.arg
          /\ ret.value.file \in DOMAIN handles
          /\ ret.arg \in handles[ret.value.file].keys

W6_DefaultReturned ==
    /\ ret.op = "get"
    /\ ret.arg = Absent
    /\ ret.value = Default
    /\ DOMAIN _tensors = Names

\* C7: once the constructor has failed, no handle it opened is still open.
C7_NoHandleLeftOpen ==
    pc = "raised" => \A i \in DOMAIN handles : ~handles[i].open

\* C8: once the wrapper is constructed no step changes the registry or the
\* list of loaded paths.
C8_RegistryImmutable ==
    [][pc = "done" => (_tensors' = _tensors /\ _file_paths' = _file_paths)]_vars

W8_QueriedAfterConstruction ==
    /\ pc = "done"
    /\ ret.op = "get_index"
    /\ mutations > 0
    /\ DOMAIN _tensors = Names

\* C9: the files are loaded in the order given.  The handles opened and the
\* paths appended are prefixes of file_paths; a path is appended only when
\* every key of its file is in the registry, whatever their number; the file
\* that fails is not appended and no file after it is opened; and a collision
\* is raised at the first file that holds a name of an earlier file.
C9_LoadOrder ==
    /\ Len(handles) <= Len(file_paths)
    /\ \A i \in DOMAIN handles : handles[i].path = file_paths[i]
    /\ _file_paths = SubSeq(file_paths, 1, Len(_file_paths))
    /\ \A i \in Loaded : handles[i].keys \subseteq DOMAIN _tensors
    /\ pc = "loop" => Len(handles) = cur - 1 /\ Len(_file_paths) = cur - 1
    /\ pc = "keys" => Len(handles) = cur /\ Len(_file_paths) = cur - 1
    /\ pc = "done" => _file_paths = file_paths
    /\ pc = "raised" =>
          /\ exc.at = cur
          /\ Len(_file_paths) = cur - 1
          /\ Len(handles) = IF exc.type = "ValueError" THEN cur ELSE cur - 1
    /\ exc.type = "ValueError" =>
          \A j \in 1..(cur - 1) : \A i \in 1..(j - 1) :
             TensorNames(disk[file_paths[i]]) \cap TensorNames(disk[file_paths[j]]) = {}

W9_FailsAtSecondOfThree ==
    /\ pc = "raised"
    /\ exc.type = "ValueError"
    /\ cur = 2
    /\ Len(file_paths) = 3
    /\ Len(handles) = 2
    /\ disk[file_paths[3]] = FileEmpty
    /\ _file_paths = <<file_paths[1]>>

\* C10: the length the parser uses is the little-endian value of the 8 prefix
\* bytes whatever the host's byte order, and the header text of a file that
\* holds all the bytes it declares is the N bytes after the prefix.
C10_LittleEndianLength ==
    parsed.status \notin {"pending", "struct.error"} =>
       /\ parsed.header_size = LittleEndianDigits(input.prefix)
       /\ (parsed.status = "ok" /\ ~Truncated(input)) =>
             parsed.header_bytes = HeaderText(input)

====
